---- MODULE Spec2Model ----
(***************************************************************************)
(* A model of BitGoPY's resource-mapping and request-dispatch layer:       *)
(* bitgo/resource.py (BitGoResource and the capability mixins) on top of   *)
(* bitgo/client.py (BitGoClient).                                          *)
(*                                                                         *)
(* Python strings are sequences of one-character strings, so that split,   *)
(* startswith, upper, lower and format are computed as the code computes   *)
(* them.  A raised exception is the name of its class; "" is a normal      *)
(* return.                                                                 *)
(***************************************************************************)
EXTENDS Integers, Sequences, FiniteSets, TLC

(***************************************************************************)
(* Bounds of the model.                                                    *)
(***************************************************************************)
\* longest URL template of the endpoint-resolution specification
MaxTemplateLen == 5
\* longest URL template of the request-lifecycle specification
MaxUrlLen == 2
\* most positional arguments of one call
MaxArgs == 2
\* depth at which the interpreter gives up on a recursion
RecursionLimit == 3

(***************************************************************************)
(* Strings.                                                                *)
(***************************************************************************)
Str(n, alphabet) == UNION {[1..k -> alphabet] : k \in 0..n}

startswith(s, c) == Len(s) > 0 /\ s[1] = c

StartsWith2(s, c) == Len(s) > 1 /\ s[1] = c /\ s[2] = c

\* str.split('/'): one fragment more than there are slashes
RECURSIVE split(_)
split(s) ==
    IF \A i \in 1..Len(s) : s[i] # "/"
    THEN <<s>>
    ELSE LET i == CHOOSE j \in 1..Len(s) :
                      s[j] = "/" /\ \A h \in 1..(j-1) : s[h] # "/"
         IN  <<SubSeq(s, 1, i-1)>> \o split(SubSeq(s, i+1, Len(s)))

LowerOf(c) ==
    CASE c = "G" -> "g" [] c = "E" -> "e" [] c = "T" -> "t" [] c = "P" -> "p"
      [] c = "O" -> "o" [] c = "S" -> "s" [] c = "U" -> "u" [] c = "D" -> "d"
      [] c = "L" -> "l" [] c = "X" -> "x" [] OTHER -> c

UpperOf(c) ==
    CASE c = "g" -> "G" [] c = "e" -> "E" [] c = "t" -> "T" [] c = "p" -> "P"
      [] c = "o" -> "O" [] c = "s" -> "S" [] c = "u" -> "U" [] c = "d" -> "D"
      [] c = "l" -> "L" [] c = "x" -> "X" [] OTHER -> c

lower(s) == [i \in 1..Len(s) |-> LowerOf(s[i])]

upper(s) == [i \in 1..Len(s) |-> UpperOf(s[i])]

(***************************************************************************)
(* bitgo/errors.py: the exception classes and their base classes.          *)
(***************************************************************************)
BaseOf(e) ==
    CASE e = "AccessTokenException"       -> "BitGoException"
      [] e = "InvalidAccessToken"         -> "AccessTokenException"
      [] e = "BitGoClientException"       -> "BitGoException"
      [] e = "InvalidClient"              -> "BitGoClientException"
      [] e = "BitGoResourceException"     -> "BitGoException"
      [] e = "InvalidResourceEndpoint"    -> "BitGoResourceException"
      [] e = "InvalidResourceEndpointUrl" -> "BitGoResourceException"
      [] e = "InvalidResourceMethod"      -> "BitGoResourceException"
      [] e = "HttpError"                  -> "BitGoException"
      [] e = "BadRequest"                 -> "HttpError"
      [] e = "Unauthorized"               -> "HttpError"
      [] e = "Forbidden"                  -> "HttpError"
      [] e = "NotFound"                   -> "HttpError"
      [] e = "NotAcceptable"              -> "HttpError"
      [] OTHER                            -> "Exception"

\* isinstance(e, cls) for exception class names
RECURSIVE IsA(_, _)
IsA(e, cls) ==
    \/ e = cls
    \/ e \notin {"", "Exception"} /\ IsA(BaseOf(e), cls)

(***************************************************************************)
(* The endpoint table of a resource class.  ENDPOINT is None, a value that *)
(* is no dict, or a dict from action names to (url, method) tuples.  The   *)
(* url of a tuple is a str, None, or some other value (an int).            *)
(***************************************************************************)
ActionNames == {"CREATE", "READ", "UPDATE", "DELETE", "LIST"}

TemplateChars == {"/", ":", "w"}

ArgValues == {<<>>, <<"a">>, <<"b">>}

ArgLists == UNION {[1..k -> ArgValues] : k \in 0..MaxArgs}

StrUrl(s) == [kind |-> "str", s |-> s]

NoneUrl == [kind |-> "None", s |-> <<>>]

IntUrl == [kind |-> "int", s |-> <<>>]

NoTable == [a \in {} |-> [url |-> NoneUrl, method |-> <<>>]]

NoneEndpoint == [kind |-> "None", table |-> NoTable]

NotDictEndpoint == [kind |-> "list", table |-> NoTable]

DictEndpoint(actions, url, method) ==
    [kind |-> "dict", table |-> [a \in actions |-> [url |-> url, method |-> method]]]

(***************************************************************************)
(* BitGoResource.endpoint and its helpers (resource.py).                   *)
(***************************************************************************)
Raise(e) == [exc |-> e, path |-> <<>>]

Return(p) == [exc |-> "", path |-> p]

\* check_endpoint_exists: "" or the exception it raises
check_endpoint_exists(E) ==
    IF E.kind = "None" THEN "InvalidResourceEndpoint"
    ELSE IF E.kind # "dict" THEN "InvalidResourceEndpoint"
    ELSE ""

ValidMethods == {<<"P","O","S","T">>, <<"G","E","T">>,
                 <<"D","E","L","E","T","E">>, <<"P","U","T">>}

MethodRejectedCaseSensitive(method) == method \notin ValidMethods

\* line 245: method.upper() not in ['POST','GET','DELETE','PUT']
MethodRejected(method) == upper(method) \notin ValidMethods

\* get_action_endpoint: cls.ENDPOINT.get(action,None) is unpacked into
\* (endpoint, method) before anything is checked; None has no .get and
\* does not unpack
get_action_endpoint(E, action) ==
    IF E.kind # "dict"
    THEN [exc |-> "AttributeError", url |-> <<>>, method |-> <<>>]
    ELSE IF action \notin DOMAIN E.table
    THEN [exc |-> "TypeError", url |-> <<>>, method |-> <<>>]
    ELSE LET e == E.table[action] IN
         IF e.url.kind = "None"
         THEN [exc |-> "InvalidResourceEndpoint", url |-> <<>>, method |-> <<>>]
         ELSE IF e.url.kind # "str"
         THEN [exc |-> "InvalidResourceEndpointUrl", url |-> <<>>, method |-> <<>>]
         ELSE IF MethodRejected(e.method)
         THEN [exc |-> "InvalidResourceMethod", url |-> <<>>, method |-> <<>>]
         ELSE [exc |-> "", url |-> e.url.s, method |-> e.method]

IsMutable(f) == startswith(f, ":")

mutable_fragments(fragments) == SelectSeq(fragments, IsMutable)

CountMismatchTooFewOnly(args, mutable) == Len(args) < Len(mutable)

\* line 180: len(args) != len(mutable_fragments)
CountMismatch(args, mutable) == Len(args) # Len(mutable)

has_mappings_pop_last(f, keys) ==
    IF IsMutable(f)
    THEN IF keys = <<>>
         THEN [exc |-> "IndexError", val |-> <<>>, keys |-> keys]
         ELSE [exc |-> "", val |-> keys[Len(keys)], keys |-> SubSeq(keys, 1, Len(keys)-1)]
    ELSE [exc |-> "", val |-> f, keys |-> keys]

\* line 190: keys.pop(0) if f.startswith(':') else f
has_mappings(f, keys) ==
    IF IsMutable(f)
    THEN IF keys = <<>>
         THEN [exc |-> "IndexError", val |-> <<>>, keys |-> keys]
         ELSE [exc |-> "", val |-> Head(keys), keys |-> Tail(keys)]
    ELSE [exc |-> "", val |-> f, keys |-> keys]

\* line 194: "".join(['/{}'.format(has_mappings(f,args_list)) for f in fragments])
RECURSIVE JoinMapped(_, _)
JoinMapped(fragments, args_list) ==
    IF fragments = <<>> THEN Return(<<>>)
    ELSE LET m == has_mappings(Head(fragments), args_list) IN
         IF m.exc # "" THEN Raise(m.exc)
         ELSE LET rest == JoinMapped(Tail(fragments), m.keys) IN
              IF rest.exc # "" THEN rest
              ELSE Return(<<"/">> \o m.val \o rest.path)

CollapseNever(mapped_endpoint) == mapped_endpoint

\* lines 195-198: a leading '//' loses its first character
Collapse(mapped_endpoint) ==
    IF StartsWith2(mapped_endpoint, "/")
    THEN SubSeq(mapped_endpoint, 2, Len(mapped_endpoint))
    ELSE mapped_endpoint

map_to_url(endpoint_url, args) ==
    LET fragments == split(endpoint_url) IN
    IF CountMismatch(args, mutable_fragments(fragments))
    THEN Raise("InvalidResourceEndpointUrl")
    ELSE LET j == JoinMapped(fragments, args) IN
         IF j.exc # "" THEN j ELSE Return(Collapse(j.path))

\* the classmethod endpoint(cls, action, *args)
endpoint(E, action, args) ==
    LET c == check_endpoint_exists(E) IN
    IF c # "" THEN Raise(c)
    ELSE LET g == get_action_endpoint(E, action) IN
         IF g.exc # "" THEN Raise(g.exc)
         ELSE map_to_url(g.url, args)

(***************************************************************************)
(* The state.                                                              *)
(***************************************************************************)
VARIABLES
    ENDPOINT,   \* the resource class's ENDPOINT class variable
    config,     \* the BitGoClient's attributes: endpoint, user_agent, proxy
    call,       \* the last call made: its name and its arguments
    outcome,    \* "none" before any call, "" on return, else the exception raised
    ret,        \* what the last call returned
    instance,   \* the resource instance the last call constructed or read
    inflight,   \* the _send_request calls other threads are in: where each is
    sent        \* the HTTP requests the last call handed to the transport

vars == <<ENDPOINT, config, call, outcome, ret, instance, inflight, sent>>

(***************************************************************************)
(* Values of the state.                                                    *)
(***************************************************************************)
\* access_token arguments: a str, the empty str, a BitGoAccessToken, None, ints
Tokens == {"str:secret", "str:", "BitGoAccessToken", "None", "int:0", "int:5"}

IsStrToken(t) == t \in {"str:secret", "str:"}

IsAccessToken(t) == t = "BitGoAccessToken"

\* client arguments: a BitGoClient or None
Clients == {"BitGoClient", "None"}

Keys == {"id", "error"}

Values == {"v1", "v2"}

\* JSON objects: the dicts over Keys
Objects == UNION {[d -> Values] : d \in SUBSET Keys}

EmptyObject == [k \in {} |-> "v1"]

\* a decoded JSON value: a dict with its entries, or a list, int, None, unicode
Decoded(kind, props) == [kind |-> kind, parses |-> FALSE, doc |-> kind, props |-> props]

\* a str: JSON text that json.loads parses to the document doc, or rejects
Text(parses, doc, props) == [kind |-> "str", parses |-> parses, doc |-> doc, props |-> props]

NonObjectKinds == {"list", "int", "None", "unicode"}

DecodedValues ==
    {Decoded("dict", o) : o \in Objects}
        \cup {Decoded(k, EmptyObject) : k \in NonObjectKinds}

JsonInputs ==
    DecodedValues
        \cup {Text(TRUE, "dict", o) : o \in Objects}
        \cup {Text(TRUE, k, EmptyObject) : k \in NonObjectKinds}
        \cup {Text(FALSE, "None", EmptyObject)}

NoJson == Decoded("None", EmptyObject)

\* a proxy setting: None, a dict over the keys ip, port, username, password,
\* a non-empty str, or the int 0
NoProxy == [kind |-> "None", d |-> [k \in {} |-> ""]]

ProxyKeys == {"ip", "port", "username", "password"}

ProxyDict(keys) ==
    [kind |-> "dict",
     d |-> [k \in keys |-> CASE k = "ip" -> "10.0.0.1"
                             [] k = "port" -> "8080"
                             [] k = "username" -> "user"
                             [] k = "password" -> "pass"]]

StrProxy == [kind |-> "str", d |-> [k \in {} |-> ""]]

IntProxy == [kind |-> "int", d |-> [k \in {} |-> ""]]

\* the env argument: None or a str
NoEnv == [kind |-> "None", s |-> <<>>]

StrEnv(s) == [kind |-> "str", s |-> s]

NoInstance ==
    [exists |-> FALSE, client |-> "None", access_token |-> "None",
     properties |-> EmptyObject]

\* what a call returned (kind, with the path, the property value or the decoded
\* JSON), or the status code and the message of the exception it raised
NoRet == [kind |-> "none", path |-> <<>>, value |-> "", status |-> 0, json |-> NoJson]

RetPath(p) == [NoRet EXCEPT !.kind = "path", !.path = p]

RetInstance == [NoRet EXCEPT !.kind = "instance"]

RetNone == [NoRet EXCEPT !.kind = "None"]

RetValue(v) == [NoRet EXCEPT !.kind = "value", !.value = v]

RetJson(j) == [NoRet EXCEPT !.kind = "json", !.json = j]

RetError(status, message) == [NoRet EXCEPT !.status = status, !.value = message]

\* the params argument of the client: None, a dict, or a non-empty list
NoParams == [kind |-> "None", d |-> EmptyObject]

DictParams(o) == [kind |-> "dict", d |-> o]

ListParams == [kind |-> "list", d |-> EmptyObject]

\* no answer of the transport: nothing was requested
NoResponse == [exc |-> "none", status |-> 0, body |-> [kind |-> "invalid", props |-> EmptyObject]]

Call(op, action, args) ==
    [op |-> op, action |-> action, args |-> args, resource_id |-> <<>>,
     url |-> <<>>, method |-> <<>>, client |-> "None", access_token |-> "None", kwargs |-> EmptyObject,
     json_data |-> NoJson, key |-> "", params |-> NoParams, response |-> NoResponse,
     env |-> NoEnv, user_agent |-> "None", proxy |-> NoProxy]

NoCall == Call("", "", <<>>)

(***************************************************************************)
(* BitGoResource instances (resource.py lines 72-132, 290-309).            *)
(***************************************************************************)
\* _validate_requirements: "" or the exception it raises
validate_requirements(c, access_token) ==
    IF ~(IsStrToken(access_token) \/ IsAccessToken(access_token))
    THEN "InvalidAccessToken"
    ELSE IF c # "BitGoClient" THEN "InvalidClient"
    ELSE ""

\* __init__: the instance, its properties copied key by key
init(c, access_token, properties) ==
    LET v == validate_requirements(c, access_token) IN
    IF v # ""
    THEN [exc |-> v, kind |-> "none", instance |-> NoInstance]
    ELSE [exc |-> "", kind |-> "instance",
          instance |-> [exists |-> TRUE, client |-> c, access_token |-> access_token,
                        properties |-> [k \in DOMAIN properties |-> properties[k]]]]

\* json.loads of a str
loads(text) ==
    IF text.parses
    THEN [exc |-> "", value |-> Decoded(text.doc, text.props)]
    ELSE [exc |-> "ValueError", value |-> NoJson]

\* from_json: the str branch rebinds json_data and falls off the end of the
\* if/elif/else, so the method returns None; only a dict reaches cls(...)
from_json(c, access_token, json_data) ==
    IF json_data.kind = "str"
    THEN IF loads(json_data).exc # ""
         THEN [exc |-> "BitGoResourceException", kind |-> "none", instance |-> NoInstance]
         ELSE [exc |-> "", kind |-> "None", instance |-> NoInstance]
    ELSE IF json_data.kind = "dict"
    THEN init(c, access_token, json_data.props)
    ELSE [exc |-> "BitGoResourceException", kind |-> "none", instance |-> NoInstance]

\* __getitem__
getitem(inst, k) ==
    IF k \in DOMAIN inst.properties
    THEN [exc |-> "", value |-> inst.properties[k]]
    ELSE [exc |-> "AttributeError", value |-> ""]

\* object.__getattribute__: the attributes found without __getattr__
lookup(inst, k) ==
    IF k = "client" THEN [exc |-> "", value |-> inst.client]
    ELSE IF k = "access_token" THEN [exc |-> "", value |-> inst.access_token]
    ELSE IF k = "ENDPOINT" THEN [exc |-> "", value |-> "ENDPOINT"]
    ELSE [exc |-> "AttributeError", value |-> ""]

\* getattr(self, k) at a given depth of the call stack: the plain lookup, and
\* when that fails __getattr__, which starts by calling getattr(self, k) again
RECURSIVE getattr(_, _, _)
getattr(inst, k, depth) ==
    LET found == lookup(inst, k) IN
    IF found.exc = "" THEN found
    ELSE IF depth >= RecursionLimit THEN [exc |-> "RuntimeError", value |-> ""]
    ELSE LET inner == getattr(inst, k, depth + 1) IN
         IF inner.exc = "AttributeError"
         THEN IF k \in DOMAIN inst.properties
              THEN [exc |-> "", value |-> inst.properties[k]]
              ELSE [exc |-> "KeyError", value |-> ""]
         ELSE inner

(***************************************************************************)
(* BitGoClient (client.py).                                                *)
(***************************************************************************)
\* the truth value of an access_token or a proxy in an if
TruthyToken(t) == t \in {"str:secret", "BitGoAccessToken", "int:5"}

TruthyProxy(proxy) ==
    \/ proxy.kind = "dict" /\ DOMAIN proxy.d # {}
    \/ proxy.kind = "str"

ENVIRONMENT ==
    [test |-> <<"https://test.bitgo.com/api/v1">>,
     prod |-> <<"https://bitgo.com/api/v1">>]

USER_AGENT == "BitGoPY PythonClient"

\* _validate_proxy: "" or the exception it raises
validate_proxy(proxy) ==
    IF proxy.kind = "None" THEN ""
    ELSE IF proxy.kind # "dict" THEN "BitGoClientException"
    ELSE IF /\ ~(ProxyKeys \subseteq DOMAIN proxy.d)
            /\ ~({"ip", "port"} \subseteq DOMAIN proxy.d)
    THEN "BitGoClientException"
    ELSE ""

\* __init__: env and user_agent fall back to the defaults when falsy; only a
\* truthy proxy is validated, any other is stored as it is
client_init(env, user_agent, proxy) ==
    LET v == IF TruthyProxy(proxy) THEN validate_proxy(proxy) ELSE "" IN
    [exc |-> v,
     config |-> [endpoint |-> IF env.kind = "str" /\ env.s # <<>>
                              THEN env.s ELSE ENVIRONMENT["test"],
                 user_agent |-> IF user_agent \notin {"None", ""}
                                THEN user_agent ELSE USER_AGENT,
                 proxy |-> proxy]]

\* set_proxy: the exception raised, and the proxy stored afterwards
set_proxy(cfg, proxy) ==
    LET v == validate_proxy(proxy) IN
    [exc |-> v, config |-> IF v = "" THEN [cfg EXCEPT !.proxy = proxy] ELSE cfg]

\* the proxies argument of the requests call: None, the dict _build_proxy
\* makes (its one URL), or the stored proxy itself (raw)
NoProxies == [kind |-> "None", url |-> <<>>, raw |-> NoProxy]

RawProxies(proxy) ==
    IF proxy.kind = "None" THEN NoProxies
    ELSE [kind |-> "raw", url |-> <<>>, raw |-> proxy]

\* _build_proxy: the proxies dict of the requests library, or None
build_proxy(proxy) ==
    IF ~TruthyProxy(proxy) THEN [exc |-> "", proxies |-> NoProxies]
    ELSE IF proxy.kind = "str" THEN [exc |-> "TypeError", proxies |-> NoProxies]
    ELSE IF ~({"ip", "port"} \subseteq DOMAIN proxy.d)
    THEN [exc |-> "KeyError", proxies |-> NoProxies]
    ELSE IF "username" \notin DOMAIN proxy.d \/ "password" \notin DOMAIN proxy.d
    THEN [exc |-> "",
          proxies |-> [raw |-> NoProxy, kind |-> "dict",
                       url |-> <<"http://", proxy.d["ip"], ":", proxy.d["port"]>>]]
    ELSE [exc |-> "",
          proxies |-> [raw |-> NoProxy, kind |-> "dict",
                       url |-> <<"http://", proxy.d["username"], ":",
                                 proxy.d["password"], "@", proxy.d["ip"], ":",
                                 proxy.d["port"]>>]]

\* the endpoint and the uri joined with a slash, whatever the uri starts with
build_url_always_joins(cfg, uri) == cfg.endpoint \o <<"/">> \o uri

\* _build_url
build_url(cfg, uri) ==
    IF startswith(uri, "/") THEN cfg.endpoint \o uri
    ELSE cfg.endpoint \o <<"/">> \o uri

HttpMethods == {<<"g","e","t">>, <<"p","o","s","t">>, <<"p","u","t">>,
                <<"d","e","l","e","t","e">>}

NoData == [present |-> FALSE, params |-> EmptyObject]

NoRequest ==
    [url |-> <<>>, verb |-> <<>>, data |-> NoData, auth |-> "", proxies |-> NoProxies]

\* the token put in the Authorization header; "" when the header is left out
BearerOf(access_token) ==
    IF IsAccessToken(access_token) THEN "secret"
    ELSE IF access_token = "str:secret" THEN "secret"
    ELSE ""

\* every verb is requested with data
request_data_any_verb(method, params) ==
    IF params.kind = "dict" /\ DOMAIN params.d # {}
    THEN [present |-> TRUE, params |-> params.d]
    ELSE NoData

\* lines 182-191: delete and get are requested without data; post and put
\* with json.dumps(params) if params is a non-empty dict, else with None
request_data(method, params) ==
    IF lower(method) \in {<<"d","e","l","e","t","e">>, <<"g","e","t">>}
    THEN NoData
    ELSE IF params.kind = "dict" /\ DOMAIN params.d # {}
    THEN [present |-> TRUE, params |-> params.d]
    ELSE NoData

\* the proxy built with the ip read first and the other keys read second
proxy_argument_mixed(first, second) ==
    IF first.kind = "None" THEN [exc |-> "", proxies |-> RawProxies(second)]
    ELSE IF first.kind = "dict" /\ second.kind = "dict"
    THEN build_proxy([kind |-> "dict",
                      d |-> [k \in DOMAIN second.d |->
                                IF k = "ip" /\ k \in DOMAIN first.d
                                THEN first.d[k] ELSE second.d[k]]])
    ELSE build_proxy(second)

\* line 180, self.proxy if self.proxy is None else self._build_proxy(
\* proxy=self.proxy): self.proxy is read once for the test (first) and once
\* more for the value or the argument (second)
proxy_argument(first, second) ==
    IF first.kind = "None" THEN [exc |-> "", proxies |-> RawProxies(second)]
    ELSE build_proxy(second)

\* _send_request up to the call of requests.get/post/put/delete, with the two
\* values read from self.proxy: the exception raised before the call, or the
\* request handed to the transport
send_request_reads(cfg, resource, method, params, access_token, first, second) ==
    IF lower(method) \notin HttpMethods
    THEN [exc |-> "BitGoClientException", request |-> NoRequest]
    ELSE IF TruthyToken(access_token)
            /\ ~IsAccessToken(access_token) /\ ~IsStrToken(access_token)
    THEN [exc |-> "InvalidAccessToken", request |-> NoRequest]
    ELSE LET token   == IF TruthyToken(access_token) THEN BearerOf(access_token) ELSE ""
             built   == proxy_argument(first, second)
             data    == request_data(method, params)
         IN  IF built.exc # ""
             THEN [exc |-> built.exc, request |-> NoRequest]
             ELSE [exc |-> "",
                   request |-> [url |-> build_url(cfg, resource),
                                verb |-> lower(method),
                                data |-> data,
                                auth |-> token,
                                proxies |-> built.proxies]]

\* _send_request when nothing changes self.proxy while it runs
send_request(cfg, resource, method, params, access_token) ==
    send_request_reads(cfg, resource, method, params, access_token, cfg.proxy, cfg.proxy)

(***************************************************************************)
(* What the transport answers: an exception of the requests library, or a  *)
(* response with a status code and a body.  A body is text that is no JSON *)
(* ("invalid") or a JSON value.                                            *)
(***************************************************************************)
TransportErrors ==
    {"ProxyError", "SSLError", "ConnectionError", "ConnectTimeout", "ReadTimeout",
     "TooManyRedirects"}

Answer(status, kind, props) ==
    [exc |-> "", status |-> status, body |-> [kind |-> kind, props |-> props]]

Failure(e) ==
    [exc |-> e, status |-> 0, body |-> [kind |-> "invalid", props |-> EmptyObject]]

\* the except clause that catches a transport exception (ProxyError, SSLError
\* and ConnectTimeout are ConnectionErrors): the cause named in its message
CauseOf(e) ==
    CASE e = "ProxyError"      -> "proxy"
      [] e = "SSLError"        -> "tls"
      [] e = "ConnectionError" -> "connection"
      [] e = "ConnectTimeout"  -> "connection"
      [] e = "ReadTimeout"     -> "timeout"
      [] OTHER                 -> ""

ClientErrors == {400, 401, 403, 404, 406}

http_exceptions(code) ==
    CASE code = 400 -> "BadRequest"
      [] code = 401 -> "Unauthorized"
      [] code = 403 -> "Forbidden"
      [] code = 404 -> "NotFound"
      [] code = 406 -> "NotAcceptable"
      [] OTHER      -> "HttpError"

RequestRaised(e, status, message, s) ==
    [exc |-> e, status |-> status, message |-> message, value |-> NoJson, sent |-> s]

\* the except HTTPError clause, lines 248-273
http_error(response, s) ==
    IF response.status \in ClientErrors
    THEN IF response.body.kind = "invalid"
         THEN RequestRaised("ValueError", 0, "", s)
         ELSE IF response.body.kind \in {"int", "None"}
         THEN RequestRaised("TypeError", 0, "", s)
         ELSE IF response.body.kind = "dict" /\ "error" \in DOMAIN response.body.props
         THEN RequestRaised(http_exceptions(response.status), response.status,
                            response.body.props["error"], s)
         ELSE RequestRaised(http_exceptions(response.status), response.status, "", s)
    ELSE RequestRaised("HttpError", response.status, "", s)

\* BitGoClient.request
request(cfg, url, method, params, access_token, response) ==
    LET sr == send_request(cfg, url, method, params, access_token) IN
    IF sr.exc # "" THEN RequestRaised(sr.exc, 0, "", <<>>)
    ELSE LET s == <<sr.request>> IN
         IF response.exc # ""
         THEN IF CauseOf(response.exc) # ""
              THEN RequestRaised("BitGoException", 0, CauseOf(response.exc), s)
              ELSE RequestRaised("KeyError", 0, "", s)
         ELSE IF response.status >= 400
         THEN http_error(response, s)
         ELSE IF response.body.kind = "invalid"
         THEN RequestRaised("ValueError", 0, "", s)
         ELSE [exc |-> "", status |-> response.status, message |-> "",
               value |-> Decoded(response.body.kind, response.body.props),
               sent |-> s]

(***************************************************************************)
(* BitGoResource.request_resource and the mixins (resource.py 251-399).    *)
(***************************************************************************)
Raised(e, status, message, s) ==
    [exc |-> e, status |-> status, message |-> message, kind |-> "none",
     instance |-> NoInstance, sent |-> s]

\* f(action=..., *args): a positional argument fills the parameter action,
\* which the keyword then names a second time
StarClash(args) == IF Len(args) > 0 THEN "TypeError" ELSE ""

request_resource(E, cfg, action, c, access_token, args, kwargs, response) ==
    LET g == get_action_endpoint(E, action) IN
    IF g.exc # "" THEN Raised(g.exc, 0, "", <<>>)
    ELSE IF StarClash(args) # "" THEN Raised(StarClash(args), 0, "", <<>>)
    ELSE LET endpoint_mapped == endpoint(E, action, args) IN
         IF endpoint_mapped.exc # "" THEN Raised(endpoint_mapped.exc, 0, "", <<>>)
         ELSE IF c # "BitGoClient" THEN Raised("AttributeError", 0, "", <<>>)
         ELSE LET r == request(cfg, endpoint_mapped.path, g.method, DictParams(kwargs),
                               access_token, response) IN
              IF r.exc # "" THEN Raised(r.exc, r.status, r.message, r.sent)
              ELSE LET j == from_json(c, access_token, r.value) IN
                   [exc |-> j.exc, status |-> 0, message |-> "", kind |-> j.kind,
                    instance |-> j.instance, sent |-> r.sent]

\* list(args).append(resource_id): list.append returns None
AppendedArgs(args, resource_id) == [isNone |-> TRUE, items |-> <<>>]

\* cls.request_resource(action=..., client=..., access_token=..., *args, **kwargs)
delegate(E, cfg, action, c, access_token, starargs, kwargs, response) ==
    IF starargs.isNone THEN Raised("TypeError", 0, "", <<>>)
    ELSE IF StarClash(starargs.items) # ""
    THEN Raised(StarClash(starargs.items), 0, "", <<>>)
    ELSE request_resource(E, cfg, action, c, access_token, starargs.items,
                          kwargs, response)

\* CreateMixin.create and ListMixin.list pass their *args on
passes_args(E, cfg, action, c, access_token, args, kwargs, response) ==
    delegate(E, cfg, action, c, access_token,
             [isNone |-> FALSE, items |-> args], kwargs, response)

\* ReadMixin.get, UpdateMixin.update and DeleteMixin.delete
appends_id(E, cfg, action, c, access_token, resource_id, args, kwargs, response) ==
    delegate(E, cfg, action, c, access_token,
             AppendedArgs(args, resource_id), kwargs, response)

(***************************************************************************)
(* The calls a caller makes.  Each records its arguments in call, what it  *)
(* raised in outcome, what it returned in ret and instance, and the HTTP   *)
(* requests it handed to the transport in sent.                            *)
(***************************************************************************)
Finish(c, e, r, i, s) ==
    /\ call' = c
    /\ outcome' = e
    /\ ret' = r
    /\ instance' = i
    /\ sent' = s
    /\ UNCHANGED <<ENDPOINT, config, inflight>>

\* the caller holds no result: it makes its next call
Idle == call.op = ""

\* the caller drops the result of its last call
Discard ==
    /\ ~Idle
    /\ Finish(NoCall, "none", NoRet, NoInstance, <<>>)

\* cls.endpoint(action, *args)
Endpoint(action, args) ==
    LET r == endpoint(ENDPOINT, action, args) IN
    /\ Idle
    /\ Finish(Call("endpoint", action, args), r.exc,
           IF r.exc = "" THEN RetPath(r.path) ELSE NoRet, NoInstance, <<>>)

\* cls.from_json(client, access_token, json_data)
FromJson(c, access_token, json_data) ==
    LET r == from_json(c, access_token, json_data) IN
    /\ Idle
    /\ Finish([Call("from_json", "", <<>>) EXCEPT !.client = c,
                !.access_token = access_token, !.json_data = json_data],
           r.exc,
           IF r.exc # "" THEN NoRet
           ELSE IF r.kind = "instance" THEN RetInstance ELSE RetNone,
           r.instance, <<>>)

\* cls(client, access_token, properties)
Construct(c, access_token, properties) ==
    LET r == init(c, access_token, properties) IN
    /\ Idle
    /\ Finish([Call("init", "", <<>>) EXCEPT !.client = c,
                !.access_token = access_token,
                !.json_data = Decoded("dict", properties)],
           r.exc, IF r.exc # "" THEN NoRet ELSE RetInstance, r.instance, <<>>)

\* instance[k]
GetItem(k) ==
    /\ instance.exists
    /\ LET r == getitem(instance, k) IN
       Finish([call EXCEPT !.op = "getitem", !.key = k], r.exc,
              IF r.exc # "" THEN NoRet ELSE RetValue(r.value), instance, <<>>)

\* instance.k
GetAttr(k) ==
    /\ instance.exists
    /\ LET r == getattr(instance, k, 0) IN
       Finish([call EXCEPT !.op = "getattr", !.key = k], r.exc,
              IF r.exc # "" THEN NoRet ELSE RetValue(r.value), instance, <<>>)

RetOf(r) ==
    IF r.exc # ""
    THEN RetError(r.status, r.message)
    ELSE IF r.kind = "instance" THEN RetInstance ELSE RetNone

\* cls.request_resource(action, client, access_token, *args, **kwargs)
RequestResource(action, c, access_token, args, kwargs, response) ==
    LET r == request_resource(ENDPOINT, config, action, c, access_token, args,
                              kwargs, response) IN
    /\ Idle
    /\ Finish([Call("request_resource", action, args) EXCEPT !.client = c,
                !.access_token = access_token, !.kwargs = kwargs,
                !.json_data = Decoded(response.body.kind, response.body.props)],
           r.exc, RetOf(r), r.instance, r.sent)

MixinAction(op) ==
    CASE op = "create" -> "CREATE"
      [] op = "get"    -> "READ"
      [] op = "update" -> "UPDATE"
      [] op = "delete" -> "DELETE"
      [] op = "list"   -> "LIST"

\* cls.create(client, access_token, *args, **kwargs) and cls.list(...)
CreateOrList(op, c, access_token, args, kwargs, response) ==
    /\ Idle
    /\ op \in {"create", "list"}
    /\ LET r == passes_args(ENDPOINT, config, MixinAction(op), c, access_token,
                            args, kwargs, response) IN
       Finish([Call(op, MixinAction(op), args) EXCEPT !.client = c,
                   !.access_token = access_token, !.kwargs = kwargs,
                   !.json_data = Decoded(response.body.kind, response.body.props)],
              r.exc, RetOf(r), r.instance, r.sent)

\* cls.get(client, access_token, resource_id, *args, **kwargs), cls.update(...)
\* and cls.delete(...)
GetUpdateDelete(op, c, access_token, resource_id, args, kwargs, response) ==
    /\ Idle
    /\ op \in {"get", "update", "delete"}
    /\ LET r == appends_id(ENDPOINT, config, MixinAction(op), c, access_token,
                           resource_id, args, kwargs, response) IN
       Finish([Call(op, MixinAction(op), args) EXCEPT !.client = c,
                   !.resource_id = resource_id,
                   !.access_token = access_token, !.kwargs = kwargs,
                   !.json_data = Decoded(response.body.kind, response.body.props)],
              r.exc, RetOf(r), r.instance, r.sent)

\* client.request(url, method, params, access_token)
ClientRequest(url, method, params, access_token, response) ==
    LET r == request(config, url, method, params, access_token, response) IN
    /\ Idle
    /\ Finish([Call("request", "", <<>>) EXCEPT !.access_token = access_token,
                !.url = url, !.method = method,
                !.client = "BitGoClient", !.kwargs = params.d, !.params = params,
                !.response = response,
                !.json_data = Decoded(response.body.kind, response.body.props)],
           r.exc,
           IF r.exc # "" THEN RetError(r.status, r.message) ELSE RetJson(r.value),
           NoInstance, r.sent)

\* the threads that call _send_request while the client's proxy is set
Senders == {"t1", "t2"}

\* a thread outside _send_request
NoSend ==
    [pc |-> "idle", method |-> <<>>, access_token |-> "None", first |-> NoProxy,
     seen |-> {}, exc |-> "", request |-> NoRequest]

\* lines 141-180 up to the test self.proxy is None: the method and the token
\* are checked, and self.proxy is read for the test
SendTest(s, method, access_token) ==
    LET early == send_request_reads(config, <<"w">>, method, NoParams, access_token,
                                    NoProxy, NoProxy) IN
    /\ inflight[s].pc = "idle"
    /\ inflight' =
           [inflight EXCEPT ![s] =
               IF early.exc # ""
               THEN [NoSend EXCEPT !.pc = "done", !.method = method,
                       !.access_token = access_token, !.exc = early.exc]
               ELSE [NoSend EXCEPT !.pc = "tested", !.method = method,
                       !.access_token = access_token, !.first = config.proxy,
                       !.seen = {config.proxy}]]
    /\ UNCHANGED <<ENDPOINT, config, call, outcome, ret, instance, sent>>

\* line 180 after the test and lines 182-191: self.proxy is read again, and
\* the request is handed to the transport
SendDispatch(s) ==
    LET r == send_request_reads(config, <<"w">>, inflight[s].method, NoParams,
                                inflight[s].access_token, inflight[s].first,
                                config.proxy) IN
    /\ inflight[s].pc = "tested"
    /\ inflight' =
           [inflight EXCEPT ![s].pc = "done", ![s].exc = r.exc,
               ![s].request = r.request, ![s].seen = @ \cup {config.proxy}]
    /\ UNCHANGED <<ENDPOINT, config, call, outcome, ret, instance, sent>>

\* the thread's call has returned or raised
SendReturn(s) ==
    /\ inflight[s].pc = "done"
    /\ inflight' = [inflight EXCEPT ![s] = NoSend]
    /\ UNCHANGED <<ENDPOINT, config, call, outcome, ret, instance, sent>>

\* a call on the client that may replace it or change its settings
FinishClient(c, e, r, cfg) ==
    /\ call' = c
    /\ outcome' = e
    /\ ret' = r
    /\ config' = cfg
    /\ instance' = NoInstance
    /\ sent' = <<>>
    /\ UNCHANGED <<ENDPOINT, inflight>>

\* client = BitGoClient(env, user_agent, proxy): when __init__ raises, the
\* caller is left with the client it had
NewClient(env, user_agent, proxy) ==
    LET r == client_init(env, user_agent, proxy) IN
    /\ Idle
    /\ FinishClient([Call("BitGoClient", "", <<>>) EXCEPT !.env = env,
                         !.user_agent = user_agent, !.proxy = proxy],
                    r.exc, NoRet, IF r.exc = "" THEN r.config ELSE config)

\* client.set_proxy(proxy)
SetProxy(proxy) ==
    LET r == set_proxy(config, proxy) IN
    /\ Idle
    /\ FinishClient([Call("set_proxy", "", <<>>) EXCEPT !.proxy = proxy],
                    r.exc, IF r.exc = "" THEN RetNone ELSE NoRet, r.config)

\* client._build_url(uri)
BuildUrl(uri) ==
    /\ Idle
    /\ FinishClient([Call("build_url", "", <<>>) EXCEPT !.url = uri], "",
                    RetPath(build_url(config, uri)), config)

(***************************************************************************)
(* Endpoint resolution as a function of the template and the arguments:    *)
(* every template up to MaxTemplateLen, every argument list up to MaxArgs. *)
(***************************************************************************)
\* BitGoClient(): env, user_agent and proxy left at None
DefaultConfig ==
    [endpoint |-> ENVIRONMENT["test"],
     user_agent |-> USER_AGENT,
     proxy |-> NoProxy]

\* nothing called yet, on a client built with the defaults
Fresh ==
    /\ config = DefaultConfig
    /\ call = NoCall
    /\ outcome = "none"
    /\ ret = NoRet
    /\ instance = NoInstance
    /\ inflight = [s \in Senders |-> NoSend]
    /\ sent = <<>>

InitResolve ==
    /\ ENDPOINT \in {DictEndpoint(ActionNames, StrUrl(t), <<"G","E","T">>) :
                        t \in Str(MaxTemplateLen, TemplateChars)}
    /\ Fresh

NextResolve ==
    \/ \E args \in ArgLists : Endpoint("READ", args)
    \/ Discard

SpecResolve == InitResolve /\ [][NextResolve]_vars

(***************************************************************************)
(* Rehydration and property access: from_json and the constructor on every *)
(* client, token and JSON value, request_resource on every success body,   *)
(* then item and attribute reads of the instance.                          *)
(***************************************************************************)
GET == <<"G","E","T">>

ReadKeys == Keys \cup {"label", "client"}

SuccessAnswers ==
    {Answer(200, v.kind, v.props) : v \in DecodedValues}
        \cup {Answer(200, "invalid", EmptyObject)}

InitJson ==
    /\ ENDPOINT = DictEndpoint(ActionNames, StrUrl(<<"w">>), GET)
    /\ Fresh

NextJson ==
    \/ \E c \in Clients, t \in Tokens, j \in JsonInputs : FromJson(c, t, j)
    \/ \E c \in Clients, t \in Tokens, o \in Objects : Construct(c, t, o)
    \/ \E c \in Clients, t \in Tokens, r \in SuccessAnswers :
           RequestResource("LIST", c, t, <<>>, EmptyObject, r)
    \/ \E k \in ReadKeys : GetItem(k)
    \/ \E k \in ReadKeys : GetAttr(k)
    \/ Discard

SpecJson == InitJson /\ [][NextJson]_vars

(***************************************************************************)
(* HTTP verbs: a table entry, and a direct client.request, with every      *)
(* upper/lower-case spelling of the four verbs and some other strings.     *)
(***************************************************************************)
Spellings(v) == {s \in [1..Len(v) -> {v[i] : i \in 1..Len(v)} \cup {LowerOf(v[i]) : i \in 1..Len(v)}] :
                    \A i \in 1..Len(v) : s[i] \in {v[i], LowerOf(v[i])}}

OtherVerbs == {<<>>, <<"P","A","T","C","H">>, <<"g","e","t","s">>, <<"G","E">>,
               <<"H","E","A","D">>}

Verbs == UNION {Spellings(v) : v \in ValidMethods} \cup OtherVerbs

VerbAnswers ==
    {Answer(200, "dict", EmptyObject), Answer(404, "dict", EmptyObject),
     Failure("ConnectionError")}

InitVerb ==
    /\ ENDPOINT \in {DictEndpoint(ActionNames, StrUrl(<<"w">>), m) : m \in Verbs}
    /\ Fresh

NextVerb ==
    \/ Endpoint("READ", <<>>)
    \/ \E m \in Verbs, o \in {EmptyObject, [k \in {"id"} |-> "v1"]},
          r \in VerbAnswers :
           ClientRequest(<<"w">>, m, DictParams(o), "str:secret", r)
    \/ \E o \in {EmptyObject, [k \in {"id"} |-> "v1"]}, r \in VerbAnswers :
           RequestResource("READ", "BitGoClient", "str:secret", <<>>, o, r)
    \/ Discard

SpecVerb == InitVerb /\ [][NextVerb]_vars

(***************************************************************************)
(* The request lifecycle: a resource class with any of the endpoint tables *)
(* below, called through endpoint, request_resource and the five mixins.   *)
(***************************************************************************)
TableDomains == {d \in SUBSET ActionNames : Cardinality(d) \in {0, 4, 5}}

TableUrls == {StrUrl(t) : t \in Str(MaxUrlLen, TemplateChars)} \cup {NoneUrl, IntUrl}

TableMethods == {GET, <<"p","o","s","t">>, <<"P","A","T","C","H">>}

Endpoints ==
    {NoneEndpoint, NotDictEndpoint}
        \cup {DictEndpoint(d, u, m) : d \in TableDomains, u \in TableUrls, m \in TableMethods}

CallTokens == {"str:secret", "None", "int:5"}

CallArgs == {<<>>, << <<"a">> >>}

CallKwargs == {EmptyObject, [k \in {"id"} |-> "v1"]}

CallAnswers ==
    {Answer(200, "dict", [k \in {"id"} |-> "v1"]), Answer(200, "list", EmptyObject),
     Answer(404, "dict", [k \in {"error"} |-> "v2"]), Answer(500, "invalid", EmptyObject),
     Failure("ReadTimeout")}

Init ==
    /\ ENDPOINT \in Endpoints
    /\ Fresh

Next ==
    \/ \E a \in ActionNames, args \in ArgLists : Endpoint(a, args)
    \/ \E a \in ActionNames, c \in Clients, t \in CallTokens, args \in CallArgs,
          kw \in CallKwargs, r \in CallAnswers :
           RequestResource(a, c, t, args, kw, r)
    \/ \E op \in {"create", "list"}, t \in CallTokens,
          args \in CallArgs, kw \in CallKwargs, r \in CallAnswers :
           CreateOrList(op, "BitGoClient", t, args, kw, r)
    \/ \E op \in {"get", "update", "delete"}, t \in CallTokens,
          id \in {<<"a">>}, args \in CallArgs, kw \in CallKwargs, r \in CallAnswers :
           GetUpdateDelete(op, "BitGoClient", t, id, args, kw, r)
    \/ Discard

Spec == Init /\ [][Next]_vars

(***************************************************************************)
(* What the claims speak of, stated without the code's own loop: the       *)
(* template of the last call, its markers counted on the characters, and   *)
(* the segments the caller expects.                                        *)
(***************************************************************************)
Resolved == call.op = "endpoint" /\ outcome = ""

Template == ENDPOINT.table[call.action].url.s

\* a marker is a ':' at the start of the template or right after a '/'
MarkerCount(t) ==
    Cardinality({i \in 1..Len(t) : t[i] = ":" /\ (i = 1 \/ t[i-1] = "/")})

\* the segment at position i once the k-th marker is replaced by the k-th argument
ExpectedSegment(frags, args, i) ==
    IF startswith(frags[i], ":")
    THEN args[Cardinality({j \in 1..i : startswith(frags[j], ":")})]
    ELSE frags[i]

RECURSIVE SlashJoin(_, _, _)
SlashJoin(frags, args, i) ==
    IF i > Len(frags) THEN <<>>
    ELSE IF i = Len(frags) THEN ExpectedSegment(frags, args, i)
    ELSE ExpectedSegment(frags, args, i) \o <<"/">> \o SlashJoin(frags, args, i+1)

\* C2: with a well-formed table entry, endpoint resolution raises
\* InvalidResourceEndpointUrl, and returns nothing, exactly when the number of
\* positional arguments differs from the number of markers of the template.
C2_CountDecides ==
    call.op = "endpoint" =>
        IF Len(call.args) # MarkerCount(Template)
        THEN outcome = "InvalidResourceEndpointUrl" /\ ret = NoRet
        ELSE outcome = "" /\ ret.kind = "path"

C2_Witness ==
    /\ call.op = "endpoint"
    /\ MarkerCount(Template) = 2
    /\ Len(call.args) = 1
    /\ outcome = "InvalidResourceEndpointUrl"

\* C3: when the counts match, the fragments of the resolved path end with the
\* template's segments in their order, the i-th marker replaced by the i-th
\* argument and every other segment unchanged.
C3_LeftToRight ==
    Resolved =>
        LET frags == split(Template)
            out   == split(ret.path)
            off   == Len(out) - Len(frags)
        IN  /\ off \in {0, 1}
            /\ \A i \in 1..Len(frags) :
                   out[off + i] = ExpectedSegment(frags, call.args, i)

C3_Witness ==
    /\ Resolved
    /\ Template = <<"/", ":", "/", ":">>
    /\ call.args = << <<"a">>, <<"b">> >>
    /\ ret.path = <<"/", "a", "/", "b">>

\* C7 as stated: the path is the segments re-joined with '/', without a
\* leading '/' when the template has none and with exactly one when it has.
C7_Original ==
    Resolved =>
        /\ ret.path = SlashJoin(split(Template), call.args, 1)
        /\ ~startswith(Template, "/") => ~startswith(ret.path, "/")
        /\ startswith(Template, "/") =>
               startswith(ret.path, "/") /\ ~StartsWith2(ret.path, "/")

\* C7, amended: the resolved path is the substituted segments joined with
\* '/', with a '/' put in front unless the joined string begins with one; it
\* always begins with '/'.
C7_LeadingSlash ==
    Resolved =>
        LET J == SlashJoin(split(Template), call.args, 1) IN
        /\ ret.path = IF startswith(J, "/") THEN J ELSE <<"/">> \o J
        /\ startswith(ret.path, "/")

C7_Witness ==
    /\ Resolved
    /\ Template = <<"w">>
    /\ ret.path = <<"/", "w">>

(***************************************************************************)
(* The request lifecycle and the mixins.                                   *)
(***************************************************************************)
Mixins == {"create", "get", "update", "delete", "list"}

HasEntry == ENDPOINT.kind = "dict" /\ call.action \in DOMAIN ENDPOINT.table

\* a verb is one of the four, each letter in either case
CanonicalOf(m) ==
    {v \in ValidMethods :
        Len(v) = Len(m) /\ \A i \in 1..Len(v) : m[i] \in {v[i], LowerOf(v[i])}}

IsVerb(m) == CanonicalOf(m) # {}

\* the substituted segments joined with '/', behind one leading '/'
ExpectedPath(t, args) ==
    LET J == SlashJoin(split(t), args, 1) IN
    IF startswith(J, "/") THEN J ELSE <<"/">> \o J

\* C1 as stated: get, update and delete on a table whose entry has exactly
\* one marker send one request, to the path with resource_id in the marker's
\* place.
C1_MixinsDispatch ==
    ( /\ call.op \in {"get", "update", "delete"}
      /\ HasEntry
      /\ ENDPOINT.table[call.action].url.kind = "str"
      /\ MarkerCount(Template) = 1
      /\ IsVerb(ENDPOINT.table[call.action].method)
      /\ call.args = <<>>
      /\ call.client = "BitGoClient"
      /\ call.access_token = "str:secret" )
    => /\ Len(sent) = 1
       /\ sent[1].url = config.endpoint \o ExpectedPath(Template, <<call.resource_id>>)

\* C4 as stated: an action that the endpoint table lacks raises
\* InvalidResourceEndpoint, in endpoint, request_resource and every mixin.
C4_AbsentAction ==
    ( /\ call.op \in {"endpoint", "request_resource"} \cup Mixins
      /\ ENDPOINT.kind = "dict"
      /\ call.action \notin DOMAIN ENDPOINT.table )
    => outcome = "InvalidResourceEndpoint"

\* C5 as stated: with ENDPOINT None or no dict, endpoint and
\* request_resource raise InvalidResourceEndpoint whatever the arguments.
C5_NoTable ==
    ( /\ call.op \in {"endpoint", "request_resource"}
      /\ ENDPOINT.kind # "dict" )
    => outcome = "InvalidResourceEndpoint"

(***************************************************************************)
(* HTTP verbs.                                                             *)
(***************************************************************************)
TableVerb == ENDPOINT.table[call.action].method

\* what the call does when the verb is spelled in capitals
CanonicalEndpoint(m) ==
    endpoint(DictEndpoint(ActionNames, StrUrl(<<"w">>), CHOOSE v \in CanonicalOf(m) : TRUE),
             call.action, call.args)

VerbAccepted(failure) ==
    /\ call.op = "endpoint" =>
           IF IsVerb(TableVerb)
           THEN outcome = CanonicalEndpoint(TableVerb).exc
                /\ ret.path = CanonicalEndpoint(TableVerb).path
           ELSE outcome = "InvalidResourceMethod"
    /\ call.op = "request" =>
           IF IsVerb(call.method)
           THEN LET v == CHOOSE c \in CanonicalOf(call.method) : TRUE IN
                /\ Len(sent) = 1
                /\ sent[1].verb = lower(v)
                /\ sent[1].data.present <=>
                       (v \in {<<"P","O","S","T">>, <<"P","U","T">>}
                            /\ DOMAIN call.kwargs # {})
           ELSE outcome = failure /\ sent = <<>>

\* C6 as stated: every spelling of the four verbs is accepted by endpoint
\* resolution and by the client's request, as the verb in capitals is; any
\* other verb raises InvalidResourceMethod and nothing is sent.
C6_Original == VerbAccepted("InvalidResourceMethod")

\* C6, amended: ... any other verb raises InvalidResourceMethod in endpoint
\* resolution and BitGoClientException in the client's request, and nothing
\* is sent.
C6_AnyCase == VerbAccepted("BitGoClientException")

C6_Witness ==
    /\ call.op = "request"
    /\ call.method = <<"d","E","l","e","T","e">>
    /\ Len(sent) = 1
    /\ sent[1].verb = <<"d","e","l","e","t","e">>

(***************************************************************************)
(* Rehydration and property access.                                        *)
(***************************************************************************)
ValidBinding ==
    /\ call.client = "BitGoClient"
    /\ call.access_token \in {"str:secret", "str:", "BitGoAccessToken"}

\* the JSON value behind json_data: the document of a text, else the value
IsObject(j) == IF j.kind = "str" THEN j.parses /\ j.doc = "dict" ELSE j.kind = "dict"

\* C8 as stated: from_json of text that parses to an object returns an
\* instance with that object's entries, bound to the client and the token;
\* of text that does not parse, it raises BitGoResourceException.
C8_TextRehydrates ==
    ( /\ call.op = "from_json"
      /\ call.json_data.kind = "str"
      /\ ValidBinding )
    => IF ~call.json_data.parses
       THEN outcome = "BitGoResourceException"
       ELSE call.json_data.doc = "dict" =>
                /\ outcome = ""
                /\ ret.kind = "instance"
                /\ instance.exists
                /\ instance.properties = call.json_data.props
                /\ instance.client = call.client
                /\ instance.access_token = call.access_token

\* C9 as stated: from_json of a value that is no object, given decoded or as
\* text, raises BitGoResourceException; request_resource returns an instance
\* or raises.
C9_NonObjectFails ==
    /\ ( call.op = "from_json" /\ ~IsObject(call.json_data) )
           => outcome = "BitGoResourceException"
    /\ ( call.op = "request_resource" /\ outcome = "" )
           => ret.kind = "instance" /\ instance.exists

\* C10 as stated: every key of the object an instance was built from reads
\* back its value, through instance[k] and through instance.k.
C10_RoundTrip ==
    ( /\ call.op \in {"getitem", "getattr"}
      /\ call.key \in DOMAIN call.json_data.props )
    => outcome = "" /\ ret.kind = "value" /\ ret.value = call.json_data.props[call.key]

\* C11 as stated: reading a name that is not in the instance's property
\* mapping (and is no attribute of the object itself) raises AttributeError,
\* through instance[k] and through instance.k: it returns no value and raises
\* no KeyError or RuntimeError.
C11_UnknownProperty ==
    ( /\ call.op \in {"getitem", "getattr"}
      /\ call.key \notin DOMAIN instance.properties
      /\ lookup(instance, call.key).exc = "AttributeError" )
    => outcome = "AttributeError" /\ ret = NoRet

(***************************************************************************)
(* The transport client: client.request with every kind of token, body     *)
(* parameter and answer of the transport, and list() on a GET endpoint.    *)
(***************************************************************************)
ClientStatuses == {200, 201, 400, 401, 403, 404, 406, 409, 500}

ClientBodies ==
    {[kind |-> "invalid", props |-> EmptyObject]}
        \cup {[kind |-> "dict", props |-> o] :
                 o \in {EmptyObject, [k \in {"error"} |-> "v1"], [k \in {"id"} |-> "v2"]}}
        \cup {[kind |-> k, props |-> EmptyObject] : k \in NonObjectKinds}

ClientAnswers ==
    {Answer(st, b.kind, b.props) : st \in ClientStatuses, b \in ClientBodies}
        \cup {Failure(e) : e \in TransportErrors}

ClientMethods ==
    {GET, <<"g","e","t">>, <<"P","O","S","T">>, <<"p","u","t">>,
     <<"D","E","L","E","T","E">>, <<"P","A","T","C","H">>}

ClientParams ==
    {NoParams, ListParams, DictParams(EmptyObject), DictParams([k \in {"id"} |-> "v1"])}

InitClient ==
    /\ ENDPOINT = DictEndpoint(ActionNames, StrUrl(<<"w">>), GET)
    /\ Fresh

NextClient ==
    \/ \E m \in ClientMethods, p \in ClientParams, t \in Tokens, r \in ClientAnswers :
           ClientRequest(<<"w">>, m, p, t, r)
    \/ \E o \in {EmptyObject, [k \in {"id"} |-> "v1"]},
          r \in {Answer(200, "dict", EmptyObject), Answer(404, "dict", EmptyObject)} :
           CreateOrList("list", "BitGoClient", "str:secret", <<>>, o, r)
    \/ Discard

SpecClient == InitClient /\ [][NextClient]_vars

\* the request reached the transport, which answered with a status code
Answered ==
    /\ call.op = "request"
    /\ Len(sent) = 1
    /\ call.response.exc = ""

\* C12 as stated: an answer with status 400, 401, 403, 404 or 406 raises
\* BadRequest, Unauthorized, Forbidden, NotFound or NotAcceptable, any other
\* status from 400 up raises HttpError; the exception carries the status code
\* and nothing is returned.
C12_StatusClassified ==
    ( Answered /\ call.response.status >= 400 )
    => /\ outcome = ( CASE call.response.status = 400 -> "BadRequest"
                        [] call.response.status = 401 -> "Unauthorized"
                        [] call.response.status = 403 -> "Forbidden"
                        [] call.response.status = 404 -> "NotFound"
                        [] call.response.status = 406 -> "NotAcceptable"
                        [] OTHER -> "HttpError" )
       /\ ret.status = call.response.status
       /\ ret.kind = "none"

\* C13 as stated: an answer with status 400, 401, 403, 404 or 406 raises the
\* exception of that status whatever the body: with the body's "error" entry
\* as its message, and with the empty message when the body has none (an empty
\* body, text that is no JSON, a JSON value that is no object).
C13_BodyNeverMatters ==
    ( Answered /\ call.response.status \in {400, 401, 403, 404, 406} )
    => /\ outcome \in {"BadRequest", "Unauthorized", "Forbidden", "NotFound",
                       "NotAcceptable"}
       /\ ret.value = ( IF /\ call.response.body.kind = "dict"
                           /\ "error" \in DOMAIN call.response.body.props
                        THEN call.response.body.props["error"]
                        ELSE "" )

\* C14 as stated: an answer with a status below 400 returns the decoded JSON
\* body; when the body is no JSON the call raises HttpError.
C14_SuccessDecodes ==
    ( Answered /\ call.response.status < 400 )
    => IF call.response.body.kind = "invalid"
       THEN outcome = "HttpError"
       ELSE /\ outcome = ""
            /\ ret = RetJson(Decoded(call.response.body.kind, call.response.body.props))

\* C15 as stated: every exception of the transport raises BitGoException, and
\* its message names the cause: proxy, tls, connection, or timeout (a timeout
\* while connecting included); any other transport exception raises
\* BitGoException as well.
C15_TransportTyped ==
    ( /\ call.op = "request"
      /\ Len(sent) = 1
      /\ call.response.exc \in TransportErrors )
    => /\ outcome = "BitGoException"
       /\ call.response.exc = "ProxyError" => ret.value = "proxy"
       /\ call.response.exc = "SSLError" => ret.value = "tls"
       /\ call.response.exc = "ConnectionError" => ret.value = "connection"
       /\ call.response.exc \in {"ConnectTimeout", "ReadTimeout"} => ret.value = "timeout"

\* C16 as stated: a token that is not None and is neither a str nor a
\* BitGoAccessToken (0 included) raises InvalidAccessToken before anything is
\* requested.
C16_TokenRejected ==
    ( /\ call.op = "request"
      /\ lower(call.method) \in HttpMethods
      /\ call.access_token # "None"
      /\ ~IsStrToken(call.access_token)
      /\ ~IsAccessToken(call.access_token) )
    => outcome = "InvalidAccessToken" /\ sent = <<>>

\* the body parameters of the call: params of client.request, the keyword
\* arguments of a mixin
BodyParams == IF call.op = "request" THEN call.params ELSE DictParams(call.kwargs)

\* C17: a request sent with get or delete carries no body, whatever body
\* parameters were passed (the filters given to list() on a GET endpoint are
\* not sent); one sent with post or put carries the body parameters when they
\* are a non-empty dict, and no body otherwise.
C17_BodyByVerb ==
    ( call.op \in {"request", "list"} /\ Len(sent) = 1 )
    => /\ sent[1].verb \in {<<"g","e","t">>, <<"d","e","l","e","t","e">>}
              => sent[1].data = NoData
       /\ sent[1].verb \in {<<"p","o","s","t">>, <<"p","u","t">>}
              => IF BodyParams.kind = "dict" /\ BodyParams.d # EmptyObject
                 THEN sent[1].data = [present |-> TRUE, params |-> BodyParams.d]
                 ELSE sent[1].data = NoData

\* list() with a filter on a GET endpoint: requested, without the filter
C17_Witness ==
    /\ call.op = "list"
    /\ call.kwargs = [k \in {"id"} |-> "v1"]
    /\ outcome = ""
    /\ Len(sent) = 1
    /\ sent[1].verb = <<"g","e","t">>
    /\ ~sent[1].data.present

(***************************************************************************)
(* Client settings: clients constructed with every environment and proxy   *)
(* argument, set_proxy with every proxy argument, and the URLs built and   *)
(* requested afterwards.                                                   *)
(***************************************************************************)
MaxUriLen == 3

Uris == Str(MaxUriLen, {"/", "x"})

Envs == {NoEnv, StrEnv(<<>>), StrEnv(<<"test">>), StrEnv(<<"prod">>),
         StrEnv(<<"http://localhost:3080">>)}

Proxies == {NoProxy, StrProxy, IntProxy} \cup {ProxyDict(k) : k \in SUBSET ProxyKeys}

InitConfig ==
    /\ ENDPOINT = DictEndpoint(ActionNames, StrUrl(<<"w">>), GET)
    /\ Fresh

NextConfig ==
    \/ \E e \in Envs, u \in {"None", "agent"}, p \in Proxies : NewClient(e, u, p)
    \/ \E p \in Proxies : SetProxy(p)
    \/ \E u \in Uris : BuildUrl(u)
    \/ ClientRequest(<<"w">>, GET, NoParams, "str:secret", Answer(200, "dict", EmptyObject))
    \/ Discard

SpecConfig == InitConfig /\ [][NextConfig]_vars

\* the uri without its leading slash, if it has one
Unslashed(u) == IF startswith(u, "/") THEN Tail(u) ELSE u

\* C18: _build_url of "/x" and of "x" give the same URL: the base URL, one
\* slash, and x.
C18_OneSlash ==
    ( call.op = "build_url" /\ ~startswith(Unslashed(call.url), "/") )
    => ret.path = config.endpoint \o <<"/">> \o Unslashed(call.url)

\* "/x" built on the client of a custom environment
C18_Witness ==
    /\ call.op = "build_url"
    /\ call.url = <<"/", "x">>
    /\ config.endpoint = <<"http://localhost:3080">>
    /\ ret.path = <<"http://localhost:3080", "/", "x">>

\* C19 as stated: a client constructed with environment "test" or "prod" has
\* that environment's URL of the ENVIRONMENT table as its base URL, one
\* constructed with no environment has the "test" URL, and every URL built
\* starts with the base URL.
C19_EnvironmentBound ==
    /\ ( call.op = "BitGoClient" /\ outcome = "" )
           => /\ call.env = StrEnv(<<"test">>) => config.endpoint = ENVIRONMENT["test"]
              /\ call.env = StrEnv(<<"prod">>) => config.endpoint = ENVIRONMENT["prod"]
              /\ call.env = NoEnv => config.endpoint = ENVIRONMENT["test"]
    /\ call.op = "build_url"
           => SubSeq(ret.path, 1, Len(config.endpoint)) = config.endpoint

\* None, or a dict with ip and port and with both or neither of username and
\* password
ValidDescriptor(proxy) ==
    \/ proxy.kind = "None"
    \/ /\ proxy.kind = "dict"
       /\ {"ip", "port"} \subseteq DOMAIN proxy.d
       /\ "username" \in DOMAIN proxy.d <=> "password" \in DOMAIN proxy.d

\* C20 as stated: after any constructions and set_proxy calls the stored
\* proxy is None or a dict with ip and port and with both or neither of
\* username and password; the constructor and set_proxy raise
\* BitGoClientException for any other argument.
C20_ProxyDescriptor ==
    /\ ValidDescriptor(config.proxy)
    /\ ( call.op \in {"BitGoClient", "set_proxy"} /\ ~ValidDescriptor(call.proxy) )
           => outcome = "BitGoClientException"

(***************************************************************************)
(* The order of the steps of request_resource.                             *)
(***************************************************************************)
ValidationErrors ==
    {"InvalidResourceEndpoint", "InvalidResourceEndpointUrl", "InvalidResourceMethod",
     "InvalidAccessToken"}

\* C21 as stated: request_resource resolves the endpoint, then sends, then
\* rehydrates, and sends at most one request; when it raises a validation
\* error (InvalidResourceEndpoint, InvalidResourceEndpointUrl,
\* InvalidResourceMethod, or InvalidAccessToken for a token that is neither a
\* str nor a BitGoAccessToken, None included) nothing has been sent.
C21_ValidatedBeforeSent ==
    call.op = "request_resource"
    => /\ Len(sent) <= 1
       /\ instance.exists => Len(sent) = 1
       /\ Len(sent) = 1 => endpoint(ENDPOINT, call.action, call.args).exc = ""
       /\ outcome \in ValidationErrors => sent = <<>>

(***************************************************************************)
(* set_proxy while other threads are in _send_request on the same client.  *)
(***************************************************************************)
OtherProxy ==
    [kind |-> "dict", d |-> [k \in {"ip", "port"} |-> IF k = "ip" THEN "10.0.0.2" ELSE "3128"]]

RaceProxies ==
    {NoProxy, OtherProxy, ProxyDict({"ip", "port"}), ProxyDict(ProxyKeys),
     ProxyDict({"port"}), StrProxy}

InitRace ==
    /\ ENDPOINT = DictEndpoint(ActionNames, StrUrl(<<"w">>), GET)
    /\ Fresh

NextRace ==
    \/ \E p \in RaceProxies : SetProxy(p)
    \/ Discard
    \/ \E s \in Senders, m \in {GET, <<"P","A","T","C","H">>},
          t \in {"str:secret", "int:5"} : SendTest(s, m, t)
    \/ \E s \in Senders : SendDispatch(s)
    \/ \E s \in Senders : SendReturn(s)

SpecRace == InitRace /\ [][NextRace]_vars

\* the proxies dict made of one descriptor: one URL with its ip and port, and
\* with its username and password when it has both
SettingsOf(d) ==
    IF {"username", "password"} \subseteq DOMAIN d.d
    THEN <<"http://", d.d["username"], ":", d.d["password"], "@", d.d["ip"], ":",
           d.d["port"]>>
    ELSE <<"http://", d.d["ip"], ":", d.d["port"]>>

\* no proxy, or one descriptor as it is, or the settings made of one
DerivedFrom(p, d) ==
    \/ p.kind = "None"
    \/ p.kind = "raw" /\ p.raw = d
    \/ p.kind = "dict" /\ d.kind = "dict" /\ {"ip", "port"} \subseteq DOMAIN d.d
                       /\ p.url = SettingsOf(d)

\* the thread got past the checks of the method and the token
PastChecks(s) ==
    /\ inflight[s].pc = "done"
    /\ inflight[s].seen # {}

\* C22: while set_proxy runs concurrently, every _send_request that passes
\* its method and token checks hands over its request without raising, with
\* no proxy or with proxy settings that come from exactly one of the values
\* self.proxy had during the call.
C22_OneDescriptor ==
    \A s \in Senders :
        PastChecks(s)
        => /\ inflight[s].exc = ""
           /\ \E d \in inflight[s].seen : DerivedFrom(inflight[s].request.proxies, d)

\* the proxy was replaced between the two reads of a call, which used the
\* later one
C22_Witness ==
    \E s \in Senders :
        /\ PastChecks(s)
        /\ inflight[s].first = ProxyDict({"ip", "port"})
        /\ inflight[s].seen = {ProxyDict({"ip", "port"}), OtherProxy}
        /\ inflight[s].request.proxies.url = <<"http://", "10.0.0.2", ":", "3128">>

====
